---- MODULE Spec2Model ----
(***************************************************************************)
(* A model of gmail-api-playground.                                        *)
(*                                                                         *)
(*   Spec       GmailWrapper.query_threads_with_paging and everything it   *)
(*              calls (gmail_api.py): the paging loop, the thread-detail   *)
(*              fetch, the recursive message-part parser, the pending      *)
(*              list of bodies without data and the attachment fetches.    *)
(*              The mail provider is the environment: each request gets a  *)
(*              response chosen from a bounded catalogue.  A provider or   *)
(*              network failure is not modelled; an exception is raised    *)
(*              only by the code itself, on a record it cannot read.       *)
(*   FilterSpec GmailPlayground.filter_data_by_regex_pattern followed by   *)
(*              DataConverter.convert_data_to_aggregated_rows              *)
(*              (gmail_playground.py), on bounded lists of messages.       *)
(*                                                                         *)
(* Python values are written as follows.  None, for a string-valued field, *)
(* is the string "None"; text is a sequence (of base64 symbols, of bytes,  *)
(* of one-character strings); a dict is a record whose DOMAIN is its key   *)
(* set, so an absent key is an absent field.                               *)
(***************************************************************************)
EXTENDS Integers, Sequences, FiniteSets, TLC

VARIABLES
    pc,            \* where query_threads_with_paging stands
    run,           \* number of calls of query_threads_with_paging so far
    request,       \* the list request under way: "None" or the page number
    response,      \* the response of the last list request
    list_idx,      \* position of the for loop in list_of_threads
    threads,       \* the local list threads (List[Thread])
    progress,      \* the local Progress object
    pending,       \* self.message_part_bodies_without_body
    mpb_idx,       \* position of the reconciler's for loop in pending
    result,        \* what the last call returned
    details,       \* history: the thread details the provider returned in this run
    log,           \* history: the requests issued in this run, in order
    reconciler_calls, \* history: calls of the reconciler in this run
    attachment_data, \* what the last call of _query_attachment returned
    fpc,           \* where GmailPlayground.start stands
    threads_messages, \* threads.messages, the input of the filter
    skip_lines_starting_with, \* the skip prefixes, in the order given
    raw_data,      \* what filter_data_by_regex_pattern returned
    aggregated_data \* what convert_data_to_aggregated_rows returned

wvars == <<pc, run, request, response, list_idx, threads, progress, pending,
           mpb_idx, result, details, log, reconciler_calls, attachment_data>>

fvars == <<fpc, threads_messages, skip_lines_starting_with, raw_data, aggregated_data>>

vars == <<wvars, fvars>>

(***************************************************************************)
(* Bounds of the model.                                                    *)
(***************************************************************************)
MaxPages == 2
MaxThreads == 3
MaxRuns == 2
MaxPieces == 5
MaxMessages == 2
MaxPartsPerMessage == 2

None == "None"

(***************************************************************************)
(* GmailWrapper._get_field: the value of the key, or the default when the  *)
(* key is absent or its value is falsy.  Falsy depends on the type of the  *)
(* value, which the key fixes.                                             *)
(***************************************************************************)
SeqFields == {"data", "headers", "parts", "messages", "threads"}

IntFields == {"size", "internalDate"}

Falsy(field, v) ==
    IF field \in SeqFields THEN v = <<>>
    ELSE IF field \in IntFields THEN v = 0
    ELSE v \in {"", None}

FieldMissing(obj, field) ==
    \/ field \notin DOMAIN obj
    \/ Falsy(field, obj[field])

GetField(obj, field, default_val) ==
    IF FieldMissing(obj, field) THEN default_val ELSE obj[field]

(***************************************************************************)
(* utils.Decoder.decode_base64.  gmail_api.py imports it, the repository's *)
(* utils.py does not hold it: it is modelled from the specification's Body *)
(* Decoder, standard base64 with the URL-safe alphabet.  A symbol is its   *)
(* index in the alphabet (0..63), B64Pad is "=", anything larger stands    *)
(* for a character outside the alphabet.  The result is [ok, out]: ok is   *)
(* FALSE when the decoder raises.                                          *)
(***************************************************************************)
B64Pad == 64

WellFormedBase64(s) ==
    /\ Len(s) % 4 = 0
    /\ \A i \in 1..Len(s) : s[i] \in 0..B64Pad
    /\ \A i \in 1..Len(s) : s[i] = B64Pad => i >= Len(s) - 1
    /\ \A i \in 1..(Len(s) - 1) : s[i] = B64Pad => s[i + 1] = B64Pad

QuadBytes(q) ==
    LET sym(i) == IF q[i] = B64Pad THEN 0 ELSE q[i]
        n == sym(1) * 262144 + sym(2) * 4096 + sym(3) * 64 + sym(4)
        bytes == <<n \div 65536, (n \div 256) % 256, n % 256>>
        keep == IF q[3] = B64Pad THEN 1 ELSE IF q[4] = B64Pad THEN 2 ELSE 3
    IN  SubSeq(bytes, 1, keep)

RECURSIVE DecodeQuads(_)
DecodeQuads(s) ==
    IF s = <<>> THEN <<>>
    ELSE QuadBytes(SubSeq(s, 1, 4)) \o DecodeQuads(SubSeq(s, 5, Len(s)))

decode_base64(s) ==
    IF WellFormedBase64(s) THEN [ok |-> TRUE, out |-> DecodeQuads(s)]
    ELSE [ok |-> FALSE, out |-> <<>>]

(***************************************************************************)
(* GmailWrapper._parse_message_part_body_obj.  ref names the new           *)
(* MessagePartBody object: its place <<thread, message, path in the part   *)
(* tree>> in the run, which is what tells two objects with equal fields    *)
(* apart.  A size of 0 and an absent size both read as None, written 0.    *)
(* The result is the object and the entries the call appends to            *)
(* message_part_bodies_without_body.                                       *)
(***************************************************************************)
DecodeFailed(messagepart_body_data) ==
    /\ messagepart_body_data # <<>>
    /\ ~decode_base64(messagepart_body_data).ok

\* Mutant: the except branch leaves the body empty instead of keeping the data.
DecodedBodyStrDroppingOriginal(messagepart_body_data) ==
    IF messagepart_body_data = <<>> THEN <<>>
    ELSE decode_base64(messagepart_body_data).out

DecodedBodyStr(messagepart_body_data) ==
    IF messagepart_body_data = <<>> THEN <<>>
    ELSE IF decode_base64(messagepart_body_data).ok
         THEN decode_base64(messagepart_body_data).out
         ELSE messagepart_body_data

\* Mutant: registers a body by its attachmentId instead of by its empty data.
HasAttachmentId(message_part_body_obj) ==
    message_part_body_obj.attachmentId # None

HasMissingBodyData(message_part_body_obj) ==
    message_part_body_obj.data = <<>>

parse_message_part_body_obj(messagepart_body, message_id, ref) ==
    LET messagepart_body_data == GetField(messagepart_body, "data", <<>>)
        message_part_body_obj ==
            [data |-> DecodedBodyStr(messagepart_body_data),
             size |-> GetField(messagepart_body, "size", 0),
             attachmentId |-> GetField(messagepart_body, "attachmentId", None),
             encoding_error |-> DecodeFailed(messagepart_body_data),
             ref |-> ref]
    IN  [obj |-> message_part_body_obj,
         reg |-> IF HasMissingBodyData(message_part_body_obj)
                 THEN <<[message_id |-> message_id,
                         attachment_id |-> message_part_body_obj.attachmentId,
                         message_part_body |-> message_part_body_obj]>>
                 ELSE <<>>]

(***************************************************************************)
(* GmailWrapper._parse_headers, on a part that has a header list.          *)
(***************************************************************************)
parse_headers(message_part) ==
    [i \in DOMAIN message_part.headers |->
        [name |-> GetField(message_part.headers[i], "name", None),
         value |-> GetField(message_part.headers[i], "value", None)]]

(***************************************************************************)
(* GmailWrapper.parse_message_part.  The result is [raised, reg, obj]:     *)
(* raised when the code raises TypeError (iterating the None that            *)
(* _get_field returns for an absent or empty header list, or reading a     *)
(* field of an absent body), reg the entries appended to the pending list  *)
(* up to that point, in the order of the calls, obj the MessagePart.       *)
(***************************************************************************)
NoObject == <<>>

Raised(reg) == [raised |-> TRUE, reg |-> reg, obj |-> NoObject]

\* The objects of a list comprehension: head's, then rest's, up to the first raise.
Comprehension(head, rest) ==
    IF head.raised THEN [raised |-> TRUE, reg |-> head.reg, objs |-> <<>>]
    ELSE [raised |-> rest.raised,
          reg |-> head.reg \o rest.reg,
          objs |-> <<head.obj>> \o rest.objs]

MessagePart(message_part, body, kids) ==
    IF kids.raised THEN Raised(body.reg \o kids.reg)
    ELSE [raised |-> FALSE,
          reg |-> body.reg \o kids.reg,
          obj |-> [id |-> GetField(message_part, "partId", None),
                   mimeType |-> GetField(message_part, "mimeType", None),
                   headers |-> parse_headers(message_part),
                   body |-> body.obj,
                   parts |-> kids.objs]]

RECURSIVE parse_message_part(_, _, _)
RECURSIVE parse_parts(_, _, _, _)
parse_parts(message_parts, message_id, ref, i) ==
    IF i > Len(message_parts) THEN [raised |-> FALSE, reg |-> <<>>, objs |-> <<>>]
    ELSE Comprehension(parse_message_part(message_parts[i], message_id, Append(ref, i)),
                       parse_parts(message_parts, message_id, ref, i + 1))

parse_message_part(message_part, message_id, ref) ==
    IF FieldMissing(message_part, "headers") \/ "body" \notin DOMAIN message_part
    THEN Raised(<<>>)
    ELSE MessagePart(message_part,
                     parse_message_part_body_obj(message_part.body, message_id, ref),
                     parse_parts(GetField(message_part, "parts", <<>>), message_id, ref, 1))

(***************************************************************************)
(* GmailWrapper.parse_api_message.  The date is                            *)
(* fromtimestamp(int(internalDate) / 1000): a true division, so the        *)
(* milliseconds stay, as microseconds.                                     *)
(***************************************************************************)
\* Mutant: the milliseconds are dropped (the division is a floor division).
MessageTruncatingDate(message, part) ==
    IF part.raised \/ FieldMissing(message, "internalDate") THEN Raised(part.reg)
    ELSE [raised |-> FALSE,
          reg |-> part.reg,
          obj |-> [id |-> GetField(message, "id", None),
                   threadId |-> GetField(message, "threadId", None),
                   date |-> [second |-> message.internalDate \div 1000, microsecond |-> 0],
                   snippet |-> GetField(message, "snippet", None),
                   payload |-> part.obj]]

Message(message, part) ==
    IF part.raised \/ FieldMissing(message, "internalDate") THEN Raised(part.reg)
    ELSE [raised |-> FALSE,
          reg |-> part.reg,
          obj |-> [id |-> GetField(message, "id", None),
                   threadId |-> GetField(message, "threadId", None),
                   date |-> [second |-> message.internalDate \div 1000,
                             microsecond |-> (message.internalDate % 1000) * 1000],
                   snippet |-> GetField(message, "snippet", None),
                   payload |-> part.obj]]

parse_api_message(message, ref) ==
    IF "payload" \notin DOMAIN message THEN Raised(<<>>)
    ELSE Message(message,
                 parse_message_part(message.payload, GetField(message, "id", None), ref))

(***************************************************************************)
(* The list comprehension of query_threads_with_paging over the messages   *)
(* of a thread: the messages are parsed in order, up to the first raise.   *)
(***************************************************************************)
RECURSIVE parse_messages(_, _, _)
parse_messages(messages_in_thread, ref, i) ==
    IF i > Len(messages_in_thread) THEN [raised |-> FALSE, reg |-> <<>>, objs |-> <<>>]
    ELSE Comprehension(parse_api_message(messages_in_thread[i], Append(ref, i)),
                       parse_messages(messages_in_thread, ref, i + 1))

(***************************************************************************)
(* GmailWrapper._parse_subject_of_message: the scan of the header list.    *)
(***************************************************************************)
RECURSIVE ScanSubject(_, _)
ScanSubject(headers, i) ==
    IF i > Len(headers) THEN None
    ELSE IF headers[i].name = "Subject" THEN headers[i].value
    ELSE ScanSubject(headers, i + 1)

parse_subject_of_message(message) ==
    ScanSubject(message.payload.headers, 1)

(***************************************************************************)
(* The body of the for loop over list_of_threads, after the thread detail  *)
(* has arrived: [raised, reg, obj].  An absent or empty message list        *)
(* raises (the comprehension iterates None).                               *)
(***************************************************************************)
Thread(thread_data, message_objs) ==
    IF message_objs.raised THEN Raised(message_objs.reg)
    ELSE [raised |-> FALSE,
          reg |-> message_objs.reg,
          obj |-> [id |-> GetField(thread_data, "id", None),
                   subject |-> parse_subject_of_message(message_objs.objs[1]),
                   messages |-> message_objs.objs]]

assemble_thread(thread_data, ref) ==
    IF FieldMissing(thread_data, "messages") THEN Raised(<<>>)
    ELSE Thread(thread_data, parse_messages(thread_data.messages, ref, 1))

(***************************************************************************)
(* Progress (the counters the run keeps).                                  *)
(***************************************************************************)
NewProgress ==
    [requests_count |-> 0, all_items_count |-> 0, processed_items |-> 0,
     new_items_with_last_request |-> -1]

incr_requests(p) ==
    [p EXCEPT !.requests_count = @ + 1]

\* Mutant: all_items_count is overwritten instead of accumulated.
register_new_items_overwriting(p, number_of_new_items) ==
    [p EXCEPT !.all_items_count = number_of_new_items,
              !.new_items_with_last_request = number_of_new_items]

register_new_items(p, number_of_new_items) ==
    [p EXCEPT !.all_items_count = @ + number_of_new_items,
              !.new_items_with_last_request = number_of_new_items]

incr_processed_items(p) ==
    [p EXCEPT !.processed_items = @ + 1]

(***************************************************************************)
(* The provider's answers.  Raw bodies, parts and messages as the Gmail    *)
(* API returns them (format "full"): a container part has a body with a    *)
(* size only, a part stored as an attachment has an attachmentId and no    *)
(* data, an inline part has base64url data.                                *)
(***************************************************************************)
EncodedHi == <<26, 6, 36, B64Pad>>

EncodedTruncated == <<26, 6, 36>>

EncodedForeign == <<26, 6, 65, 36>>

BodyInline == [size |-> 2, data |-> EncodedHi]

BodyTruncated == [size |-> 3, data |-> EncodedTruncated]

BodyForeign == [size |-> 3, data |-> EncodedForeign]

BodyContainer == [size |-> 0]

BodyAttachment(attachment_id) == [size |-> 9, attachmentId |-> attachment_id]

BodyAttachmentEmptyData(attachment_id) ==
    [size |-> 9, data |-> <<>>, attachmentId |-> attachment_id]

BodyInlineWithAttachmentId(attachment_id) ==
    [size |-> 2, data |-> EncodedHi, attachmentId |-> attachment_id]

Hdr(name, value) == [name |-> name, value |-> value]

Leaf(part_id, headers, body) ==
    [partId |-> part_id, mimeType |-> "text/plain", headers |-> headers, body |-> body]

Multipart(part_id, headers, parts) ==
    [partId |-> part_id, mimeType |-> "multipart/mixed", headers |-> headers,
     body |-> BodyContainer, parts |-> parts]

RawMessage(message_id, internal_date, payload) ==
    [id |-> message_id, threadId |-> None, internalDate |-> internal_date,
     snippet |-> "s", payload |-> payload]

ContentType == Hdr("Content-Type", "text/plain")

MsgPlain ==
    RawMessage("m1", 1500, Leaf("0", <<Hdr("Subject", "X")>>, BodyInline))

MsgNested ==
    RawMessage("m2", 2999,
        Multipart("", <<Hdr("From", "a"), Hdr("Subject", "Y"), Hdr("Subject", "Z")>>,
            <<Leaf("0", <<ContentType>>, BodyTruncated),
              Leaf("1", <<ContentType>>, BodyAttachment("a1")),
              Multipart("2", <<ContentType>>,
                  <<Leaf("2.0", <<ContentType>>, BodyAttachment("a2")),
                    Leaf("2.1", <<ContentType>>, BodyInline)>>)>>))

MsgLowerCaseSubject ==
    RawMessage("m3", 2000,
        Multipart("", <<Hdr("subject", "Q")>>,
            <<Leaf("0", <<ContentType>>, BodyAttachmentEmptyData("a3")),
              Leaf("1", <<ContentType>>, BodyForeign),
              Leaf("2", <<ContentType>>, BodyInlineWithAttachmentId("a5"))>>))

MsgWithoutId ==
    [threadId |-> None, internalDate |-> 1000, snippet |-> "s",
     payload |-> Multipart("", <<Hdr("Subject", "W")>>,
                     <<Leaf("0", <<ContentType>>, BodyAttachment("a4")),
                       Leaf("1", <<ContentType>>, BodyAttachment("a6"))>>)]

MsgWithoutHeaders ==
    RawMessage("m5", 1000,
        [partId |-> "0", mimeType |-> "text/plain", body |-> BodyAttachment("a7")])

ThreadMessages ==
    {<<MsgPlain>>, <<MsgNested>>, <<MsgLowerCaseSubject, MsgPlain>>,
     <<MsgWithoutId>>, <<MsgWithoutHeaders>>}

ThreadData(thread_id, messages) ==
    [id |-> thread_id,
     messages |-> [i \in DOMAIN messages |-> [messages[i] EXCEPT !.threadId = thread_id]]]

ThreadIdOf(n) ==
    <<"t1", "t2", "t3", "t4", "t5", "t6", "t7", "t8", "t9", "t10", "t11", "t12",
      "t13", "t14", "t15", "t16">>[n]

(***************************************************************************)
(* A list response: a dict with the thread summaries of the page (the key  *)
(* is absent when the page is empty) and a nextPageToken when more pages   *)
(* follow; or the empty dict.  served is the number of thread summaries    *)
(* the earlier pages of the run held: every summary has an id of its own,  *)
(* and a run lists at most MaxThreads threads on at most MaxPages pages.   *)
(***************************************************************************)
EmptyResponse == <<>>

ListResponse(served, n, more) ==
    LET summaries == [i \in 1..n |-> [id |-> ThreadIdOf(served + i), snippet |-> "s"]]
        base == IF n = 0 THEN [resultSizeEstimate |-> 0]
                ELSE [resultSizeEstimate |-> n, threads |-> summaries]
    IN  IF more THEN base @@ [nextPageToken |-> "token"] ELSE base

ListRequests(l) == SelectSeq(l, LAMBDA e : e.kind = "list")

GetRequests(l) == SelectSeq(l, LAMBDA e : e.kind = "get")

AttachmentRequests(l) == SelectSeq(l, LAMBDA e : e.kind = "attachment")

RECURSIVE SummariesOf(_)
SummariesOf(l) ==
    IF l = <<>> THEN <<>>
    ELSE GetField(Head(l).response, "threads", <<>>) \o SummariesOf(Tail(l))

ListResponses(l) ==
    {EmptyResponse} \cup
    {ListResponse(Len(SummariesOf(ListRequests(l))), n, more) :
        n \in 0..(MaxThreads - Len(SummariesOf(ListRequests(l)))),
        more \in IF Len(ListRequests(l)) + 1 < MaxPages THEN BOOLEAN ELSE {FALSE}}

(***************************************************************************)
(* What messages.attachments.get answers: a MessagePartBody resource with  *)
(* the content of the attachment, or one without content.                  *)
(***************************************************************************)
AttachmentResponses ==
    {[size |-> 2, data |-> EncodedHi], [size |-> 0]}

(***************************************************************************)
(* googleapiclient's list_next: the request of the next page, or None when *)
(* the response carries no nextPageToken.                                  *)
(***************************************************************************)
list_next(previous_response) ==
    GetField(previous_response, "nextPageToken", None)

(***************************************************************************)
(* query_threads_with_paging, step by step; a step ends where the code     *)
(* waits for the provider.                                                  *)
(***************************************************************************)
Truthy(resp) == DOMAIN resp # {}

ListOfThreads(resp) ==
    IF Truthy(resp) THEN GetField(resp, "threads", <<>>) ELSE <<>>

\* Mutant: the pending list is not cleared when a run starts.
clear_forgotten(message_part_bodies_without_body) ==
    message_part_bodies_without_body

clear(message_part_bodies_without_body) == <<>>

\* Mutant: only the message id is required.
HasMessageId(mpb) ==
    mpb.message_id \notin {"", None}

HasBothIds(mpb) ==
    /\ mpb.message_id \notin {"", None}
    /\ mpb.attachment_id \notin {"", None}

NoWrapperRun ==
    /\ pc = "idle"
    /\ run = 0
    /\ request = None
    /\ response = EmptyResponse
    /\ list_idx = 0
    /\ threads = <<>>
    /\ progress = NewProgress
    /\ pending = <<>>
    /\ mpb_idx = 0
    /\ result = <<>>
    /\ details = <<>>
    /\ log = <<>>
    /\ reconciler_calls = 0
    /\ attachment_data = EmptyResponse

NoFilterRun ==
    /\ fpc = "idle"
    /\ threads_messages = <<>>
    /\ skip_lines_starting_with = <<>>
    /\ raw_data = <<>>
    /\ aggregated_data = <<>>

Init == NoWrapperRun /\ NoFilterRun

\* Lines 151-159: the call, up to the while loop.
StartRun ==
    /\ pc \in {"idle", "done", "raised"}
    /\ run < MaxRuns
    /\ run' = run + 1
    /\ request' = "first"
    /\ threads' = <<>>
    /\ progress' = NewProgress
    /\ pending' = clear(pending)
    /\ pc' = "loop"
    /\ response' = EmptyResponse
    /\ list_idx' = 0
    /\ mpb_idx' = 0
    /\ result' = <<>>
    /\ details' = <<>>
    /\ log' = <<>>
    /\ reconciler_calls' = 0
    /\ attachment_data' = EmptyResponse
    /\ UNCHANGED fvars

\* Lines 160-165: one list request and the bookkeeping of its response.
ExecuteList ==
    /\ pc = "loop"
    /\ request # None
    /\ \E r \in ListResponses(log) :
        /\ response' = r
        /\ log' = Append(log, [kind |-> "list", pageToken |-> request, response |-> r])
        /\ progress' = IF Truthy(r)
                       THEN register_new_items(incr_requests(progress), Len(ListOfThreads(r)))
                       ELSE progress
    /\ list_idx' = 1
    /\ pc' = "threads"
    /\ UNCHANGED <<run, request, threads, pending, mpb_idx, result, details,
                   reconciler_calls, attachment_data,
                   fvars>>

\* Lines 167-175: one thread of the page: its detail is fetched and parsed.
ThreadParsed(thread_data, parsed) ==
    /\ log' = Append(log, [kind |-> "get", id |-> thread_data.id])
    /\ details' = Append(details, thread_data)
    /\ pending' = pending \o parsed.reg
    /\ IF parsed.raised
       THEN /\ pc' = "raised"
            /\ UNCHANGED <<threads, list_idx>>
       ELSE /\ threads' = Append(threads, parsed.obj)
            /\ list_idx' = list_idx + 1
            /\ pc' = "threads"

query_thread_data(thread, messages) ==
    ThreadData(GetField(thread, "id", None), messages)

ProcessThread ==
    /\ pc = "threads"
    /\ list_idx <= Len(ListOfThreads(response))
    /\ \E messages \in ThreadMessages :
        ThreadParsed(query_thread_data(ListOfThreads(response)[list_idx], messages),
                     assemble_thread(
                         query_thread_data(ListOfThreads(response)[list_idx], messages),
                         <<run, Len(details) + 1>>))
    /\ progress' = incr_processed_items(progress)
    /\ UNCHANGED <<run, request, response, mpb_idx, result, reconciler_calls, attachment_data,
                   fvars>>

\* Mutant: the reconciler is called inside the while loop, after every page.
ListNextReconciling ==
    /\ pc = "threads"
    /\ list_idx > Len(ListOfThreads(response))
    /\ request' = list_next(response)
    /\ pc' = "loop"
    /\ log' = log \o [i \in DOMAIN SelectSeq(pending, HasBothIds) |->
                         [kind |-> "attachment",
                          messageId |-> SelectSeq(pending, HasBothIds)[i].message_id,
                          id |-> SelectSeq(pending, HasBothIds)[i].attachment_id]]
    /\ reconciler_calls' = reconciler_calls + 1
    /\ UNCHANGED <<run, response, list_idx, threads, progress, pending, mpb_idx,
                   result, details, attachment_data,
                   fvars>>

\* Line 176: the request of the next page.
ListNext ==
    /\ pc = "threads"
    /\ list_idx > Len(ListOfThreads(response))
    /\ request' = list_next(response)
    /\ pc' = "loop"
    /\ UNCHANGED <<run, response, list_idx, threads, progress, pending, mpb_idx,
                   result, details, log, reconciler_calls, attachment_data,
                   fvars>>

\* Line 179: the loop has ended, the reconciler is called.
CallReconciler ==
    /\ pc = "loop"
    /\ request = None
    /\ reconciler_calls' = reconciler_calls + 1
    /\ mpb_idx' = 1
    /\ pc' = "reconcile"
    /\ UNCHANGED <<run, request, response, list_idx, threads, progress, pending,
                   result, details, log, attachment_data,
                   fvars>>

\* Mutant: the content fetched is written into the body object it was fetched for.
QueryAttachmentWritingBack ==
    /\ pc = "reconcile"
    /\ mpb_idx <= Len(pending)
    /\ IF HasBothIds(pending[mpb_idx])
       THEN \E r \in AttachmentResponses :
               /\ attachment_data' = r
               /\ pending' = [pending EXCEPT ![mpb_idx].message_part_body.data =
                                                 GetField(r, "data", <<>>)]
               /\ log' = Append(log, [kind |-> "attachment",
                                      messageId |-> pending[mpb_idx].message_id,
                                      id |-> pending[mpb_idx].attachment_id])
       ELSE UNCHANGED <<attachment_data, pending, log>>
    /\ mpb_idx' = mpb_idx + 1
    /\ UNCHANGED <<pc, run, request, response, list_idx, threads, progress,
                   result, details, reconciler_calls, fvars>>

\* Lines 187-192 and 256-261: one entry of the pending list.  The value that
\* _query_attachment returns is bound to no name by its caller.
QueryAttachment ==
    /\ pc = "reconcile"
    /\ mpb_idx <= Len(pending)
    /\ IF HasBothIds(pending[mpb_idx])
       THEN \E r \in AttachmentResponses :
               /\ attachment_data' = r
               /\ log' = Append(log, [kind |-> "attachment",
                                      messageId |-> pending[mpb_idx].message_id,
                                      id |-> pending[mpb_idx].attachment_id])
       ELSE UNCHANGED <<attachment_data, log>>
    /\ mpb_idx' = mpb_idx + 1
    /\ UNCHANGED <<pc, run, request, response, list_idx, threads, progress, pending,
                   result, details, reconciler_calls, fvars>>

\* Line 180.
Return ==
    /\ pc = "reconcile"
    /\ mpb_idx > Len(pending)
    /\ result' = threads
    /\ pc' = "done"
    /\ UNCHANGED <<run, request, response, list_idx, threads, progress, pending,
                   mpb_idx, details, log, reconciler_calls, attachment_data,
                   fvars>>

Next ==
    \/ StartRun
    \/ ExecuteList
    \/ ProcessThread
    \/ ListNext
    \/ CallReconciler
    \/ QueryAttachment
    \/ Return

Spec == Init /\ [][Next]_vars

(***************************************************************************)
(* What the claims speak of: the pages and thread summaries the provider   *)
(* served in the run, and the parts of the raw messages next to the        *)
(* objects parsed from them.                                               *)
(***************************************************************************)
PagesFetched == ListRequests(log)

SummariesServed == SummariesOf(PagesFetched)

NonEmptyPages == SelectSeq(PagesFetched, LAMBDA e : DOMAIN e.response # {})

IdsOf(seq) == [i \in DOMAIN seq |-> seq[i].id]

RawParts(part) == IF "parts" \in DOMAIN part THEN part.parts ELSE <<>>

RECURSIVE PathsOf(_)
PathsOf(part) ==
    {<<>>} \cup UNION {{<<i>> \o q : q \in PathsOf(RawParts(part)[i])} :
                          i \in DOMAIN RawParts(part)}

RECURSIVE PartAt(_, _)
PartAt(part, path) ==
    IF path = <<>> THEN part ELSE PartAt(part.parts[Head(path)], Tail(path))

\* The places (thread t, message k, path in the part tree) of the parts of the
\* threads parsed in this run.
Places ==
    UNION {UNION {{[t |-> t, k |-> k, path |-> q] :
                      q \in PathsOf(details[t].messages[k].payload)} :
                  k \in DOMAIN details[t].messages} :
           t \in DOMAIN threads}

RawBodyAt(pl) == PartAt(details[pl.t].messages[pl.k].payload, pl.path).body

RawMessageIdAt(pl) ==
    IF "id" \in DOMAIN details[pl.t].messages[pl.k]
    THEN details[pl.t].messages[pl.k].id ELSE None

BodyObjectAt(pl) == PartAt(threads[pl.t].messages[pl.k].payload, pl.path).body

RawData(raw_body) == IF "data" \in DOMAIN raw_body THEN raw_body.data ELSE <<>>

RawAttachmentId(raw_body) ==
    IF "attachmentId" \in DOMAIN raw_body THEN raw_body.attachmentId ELSE None

EntriesFor(pl) ==
    {i \in DOMAIN pending : pending[i].message_part_body.ref = BodyObjectAt(pl).ref}

(***************************************************************************)
(* C1 (as stated): when query_threads_with_paging returns, it has returned *)
(* one Thread per thread summary served, in page order, all_items_count is *)
(* the number of summaries and requests_count is the number of pages       *)
(* fetched (one list request each).                                        *)
(***************************************************************************)
C1_RequestsCountIsPagesFetched ==
    pc = "done" =>
        /\ IdsOf(result) = IdsOf(SummariesServed)
        /\ progress.all_items_count = Len(SummariesServed)
        /\ progress.requests_count = Len(PagesFetched)

(***************************************************************************)
(* C1 (amended): as above, but requests_count is the number of pages whose *)
(* response was not empty: an empty response is fetched and not counted.   *)
(***************************************************************************)
C1_CountsOnReturn ==
    pc = "done" =>
        /\ IdsOf(result) = IdsOf(SummariesServed)
        /\ progress.all_items_count = Len(SummariesServed)
        /\ progress.requests_count = Len(NonEmptyPages)
        /\ progress.processed_items = Len(SummariesServed)

C1_Witness ==
    /\ pc = "done"
    /\ Len(PagesFetched) = 2
    /\ Len(GetField(PagesFetched[1].response, "threads", <<>>)) = 2
    /\ Len(GetField(PagesFetched[2].response, "threads", <<>>)) = 1
    /\ Len(result) = 3
    /\ progress.requests_count = 2

(***************************************************************************)
(* C2: the reconciler is called once in a run that returns, and only when  *)
(* no list request is left: no list or thread-detail request follows an    *)
(* attachment request, and none is issued while a page is still to come.   *)
(***************************************************************************)
C2_ReconcilerOnceAfterAllPages ==
    /\ \A i, j \in DOMAIN log :
        (i < j /\ log[i].kind = "attachment") => log[j].kind = "attachment"
    /\ AttachmentRequests(log) # <<>> => (request = None /\ pc \in {"reconcile", "done"})
    /\ reconciler_calls = IF pc \in {"reconcile", "done"} THEN 1 ELSE 0

C2_Witness ==
    /\ pc = "done"
    /\ reconciler_calls = 1
    /\ Len(PagesFetched) = 2
    /\ Len(GetRequests(log)) >= 2
    /\ AttachmentRequests(log) # <<>>
    /\ log[Len(log)].kind = "attachment"

(***************************************************************************)
(* C3: the pending list holds only entries registered in the current run   *)
(* (the first component of an object's ref is the run that made it), so    *)
(* every attachment request of a run is for a part parsed in that run.     *)
(***************************************************************************)
C3_PendingIsOfThisRun ==
    \A i \in DOMAIN pending :
        LET ref == pending[i].message_part_body.ref
        IN  /\ ref[1] = run
            /\ ref[2] \in DOMAIN details
            /\ ref[3] \in DOMAIN details[ref[2]].messages
            /\ pending[i].message_id =
                   GetField(details[ref[2]].messages[ref[3]], "id", None)

C3_Witness ==
    /\ run = 2
    /\ pc = "reconcile"
    /\ mpb_idx = 1
    /\ pending # <<>>
    /\ Len(threads) = 1

(***************************************************************************)
(* C4: for every part, at any depth, of a message parsed in this run:      *)
(* when its raw body has no inline data and has an attachmentId, exactly   *)
(* one pending entry holds the message's id, that attachmentId and the     *)
(* part's body object; when its decoded inline data is not empty, no       *)
(* pending entry holds its body object.                                    *)
(***************************************************************************)
C4_AttachmentOnlyPartsRegisteredOnce ==
    \A pl \in Places :
        /\ (RawData(RawBodyAt(pl)) = <<>> /\ RawAttachmentId(RawBodyAt(pl)) # None) =>
              /\ Cardinality(EntriesFor(pl)) = 1
              /\ \A i \in EntriesFor(pl) :
                    /\ pending[i].message_id = RawMessageIdAt(pl)
                    /\ pending[i].attachment_id = RawAttachmentId(RawBodyAt(pl))
                    /\ pending[i].message_part_body = BodyObjectAt(pl)
        /\ BodyObjectAt(pl).data # <<>> => EntriesFor(pl) = {}

C4_Witness ==
    /\ pc = "threads"
    /\ \E pl \in Places :
        /\ Len(pl.path) = 2
        /\ RawData(RawBodyAt(pl)) = <<>>
        /\ RawAttachmentId(RawBodyAt(pl)) = "a2"
        /\ \E i \in DOMAIN pending :
              /\ pending[i].attachment_id = "a2"
              /\ pending[i].message_id = "m2"
              /\ pending[i].message_part_body = BodyObjectAt(pl)
    /\ \E pl \in Places :
        /\ BodyObjectAt(pl).data # <<>>
        /\ BodyObjectAt(pl).attachmentId # None

(***************************************************************************)
(* C5: a part whose inline data cannot be decoded is parsed all the same:  *)
(* its body object holds the data as received and encoding_error is TRUE;  *)
(* for every other part encoding_error is FALSE; and a thread detail is    *)
(* parsed to the end whatever its data, so a run raises only on a part     *)
(* without headers.                                                        *)
(***************************************************************************)
Undecodable == {EncodedTruncated, EncodedForeign}

HasHeaders(message) ==
    \A q \in PathsOf(message.payload) :
        "headers" \in DOMAIN PartAt(message.payload, q)

C5_DecodeFailureIsFlaggedNotRaised ==
    /\ \A pl \in Places :
          IF RawData(RawBodyAt(pl)) \in Undecodable
          THEN /\ BodyObjectAt(pl).data = RawData(RawBodyAt(pl))
               /\ BodyObjectAt(pl).encoding_error
          ELSE /\ ~BodyObjectAt(pl).encoding_error
               /\ RawData(RawBodyAt(pl)) = EncodedHi => BodyObjectAt(pl).data = <<104, 105>>
               /\ RawData(RawBodyAt(pl)) = <<>> => BodyObjectAt(pl).data = <<>>
    /\ \A t \in DOMAIN details :
          (\A k \in DOMAIN details[t].messages : HasHeaders(details[t].messages[k]))
              => t \in DOMAIN threads

C5_Witness ==
    /\ pc = "done"
    /\ Len(result) = 2
    /\ \E pl \in Places :
        /\ pl.t = 1
        /\ pl.k = 1
        /\ RawData(RawBodyAt(pl)) = EncodedTruncated
        /\ BodyObjectAt(pl).encoding_error
        /\ BodyObjectAt(pl).data = EncodedTruncated
    /\ \E pl \in Places :
        /\ pl.t = 1
        /\ pl.k = 1
        /\ Len(pl.path) = 2
        /\ BodyObjectAt(pl).data = <<104, 105>>

(***************************************************************************)
(* C6: the attachment requests issued so far are, in the order of the      *)
(* pending list, one for each entry already visited that has a message id  *)
(* and an attachment id, with those ids; an entry without one of them      *)
(* causes no request and the loop goes on; the run returns its threads     *)
(* once every entry has been visited.                                      *)
(***************************************************************************)
Visited ==
    IF pc \in {"reconcile", "done"} THEN SubSeq(pending, 1, mpb_idx - 1) ELSE <<>>

WithBothKeys(entries) ==
    SelectSeq(entries, LAMBDA e : e.message_id # None /\ e.attachment_id # None)

C6_OneFetchPerCompleteEntry ==
    /\ Len(AttachmentRequests(log)) = Len(WithBothKeys(Visited))
    /\ \A i \in DOMAIN AttachmentRequests(log) :
          /\ AttachmentRequests(log)[i].messageId = WithBothKeys(Visited)[i].message_id
          /\ AttachmentRequests(log)[i].id = WithBothKeys(Visited)[i].attachment_id
    /\ pc = "done" => (Visited = pending /\ result = threads)

C6_Witness ==
    /\ pc = "done"
    /\ result # <<>>
    /\ \E i, j, k \in DOMAIN pending :
          /\ i < j
          /\ j < k
          /\ pending[i].message_id = None
          /\ pending[i].attachment_id # None
          /\ pending[j].message_id # None
          /\ pending[j].attachment_id = None
          /\ pending[k].message_id # None
          /\ pending[k].attachment_id # None
    /\ Len(AttachmentRequests(log)) >= 2

(***************************************************************************)
(* C7: for every thread detail the provider returns, thread assembly does  *)
(* not raise, and the thread's subject is the value of the first header    *)
(* named "Subject" in the first message's top-level header list, or None   *)
(* when there is none (also when the first message has no headers field).  *)
(***************************************************************************)
TopLevelHeaders(message) ==
    IF "headers" \in DOMAIN message.payload THEN message.payload.headers ELSE <<>>

SubjectIndexes(headers) == {i \in DOMAIN headers : headers[i].name = "Subject"}

FirstSubject(headers) ==
    IF SubjectIndexes(headers) = {} THEN None
    ELSE headers[CHOOSE i \in SubjectIndexes(headers) :
                     \A j \in SubjectIndexes(headers) : i <= j].value

C7_SubjectExtractionNeverRaises ==
    \A t \in DOMAIN details :
        /\ t \in DOMAIN threads
        /\ threads[t].subject = FirstSubject(TopLevelHeaders(details[t].messages[1]))

(***************************************************************************)
(* gmail_playground.py.  Text is a sequence of one-character strings.      *)
(* The messages are objects of the googleapiwrapper package: all the       *)
(* filter reads of one is msg_id, thread_id, subject, date and the bodies  *)
(* of get_all_plain_text_parts().  A date is a number of seconds.          *)
(*                                                                         *)
(* The literals of GmailPlayground.start are shortened: "oy" stands for    *)
(* the text that the regex .*org\.apache\.hadoop\.yarn.* looks for, "Fa"   *)
(* for the prefix "Failed testcases:" and "FI" for "FILTER:".              *)
(***************************************************************************)
DEFAULT_LINE_SEP == <<"\\", "r", "\\", "n">>

Needle == <<"o", "y">>

PrefixFailed == <<"F", "a">>

PrefixFilter == <<"F", "I">>

Whitespace == {" ", "\t", "\n", "\r"}

\* str.startswith
startswith(line, prefix) ==
    /\ Len(prefix) <= Len(line)
    /\ SubSeq(line, 1, Len(prefix)) = prefix

\* str.split(sep): piece is the text read since the last separator.
RECURSIVE split_from(_, _, _)
split_from(text, sep, piece) ==
    IF text = <<>> THEN <<piece>>
    ELSE IF startswith(text, sep)
         THEN <<piece>> \o split_from(SubSeq(text, Len(sep) + 1, Len(text)), sep, <<>>)
         ELSE split_from(Tail(text), sep, Append(piece, Head(text)))

split(text, sep) == split_from(text, sep, <<>>)

\* str.strip
RECURSIVE lstrip(_)
lstrip(text) ==
    IF text # <<>> /\ Head(text) \in Whitespace THEN lstrip(Tail(text)) ELSE text

RECURSIVE rstrip(_)
rstrip(text) ==
    IF text # <<>> /\ text[Len(text)] \in Whitespace
    THEN rstrip(SubSeq(text, 1, Len(text) - 1))
    ELSE text

strip(text) == rstrip(lstrip(text))

\* Mutant: the loop returns after the first skip prefix.
check_if_line_is_valid_first_only(line, skip_list) ==
    skip_list = <<>> \/ ~startswith(line, skip_list[1])

\* GmailPlayground._check_if_line_is_valid
RECURSIVE check_from(_, _, _)
check_from(line, skip_list, i) ==
    IF i > Len(skip_list) THEN TRUE
    ELSE IF startswith(line, skip_list[i]) THEN FALSE
    ELSE check_from(line, skip_list, i + 1)

check_if_line_is_valid(line, skip_list) == check_from(line, skip_list, 1)

\* RegexUtils.ensure_matches_pattern(line, regex), for the regex of start():
\* the line holds the text looked for (a trimmed line of the model has no
\* line break for .* to stop at).
ensure_matches_pattern(line) ==
    \E i \in 1..Len(line) : startswith(SubSeq(line, i, Len(line)), Needle)

\* Lines 181-189: the loop over the lines of one part.
KeptLine(line, skip_list) ==
    IF check_if_line_is_valid(line, skip_list) /\ ensure_matches_pattern(line)
    THEN <<line>>
    ELSE <<>>

RECURSIVE matched_lines_from(_, _, _)
matched_lines_from(lines, skip_list, i) ==
    IF i > Len(lines) THEN <<>>
    ELSE KeptLine(strip(lines[i]), skip_list) \o matched_lines_from(lines, skip_list, i + 1)

matched_lines_of_msg(body, skip_list) ==
    matched_lines_from(split(body, DEFAULT_LINE_SEP), skip_list, 1)

\* Lines 177-195: the loop over the plain-text parts of one message.
MatchedLinesOfParts(message, skip_list) ==
    [j \in DOMAIN message.plain_text_parts |->
        [message_id |-> message.msg_id,
         thread_id |-> message.thread_id,
         subject |-> message.subject,
         date |-> message.date,
         lines |-> matched_lines_of_msg(message.plain_text_parts[j].body, skip_list)]]

\* GmailPlayground.filter_data_by_regex_pattern
RECURSIVE filter_from(_, _, _)
filter_from(msgs, skip_list, i) ==
    IF i > Len(msgs) THEN <<>>
    ELSE MatchedLinesOfParts(msgs[i], skip_list) \o filter_from(msgs, skip_list, i + 1)

filter_data_by_regex_pattern(msgs, skip_list) == filter_from(msgs, skip_list, 1)

(***************************************************************************)
(* DataConverter.convert_data_to_aggregated_rows.  The two dicts are       *)
(* functions on the testcase names; keys is the order in which the names   *)
(* were inserted, which is the order in which a dict is iterated.          *)
(***************************************************************************)
\* str(datetime), for a date that is a number of seconds: its decimal digits.
RECURSIVE DateStr(_)
DateStr(date) ==
    IF date < 10 THEN <<<<"0", "1", "2", "3", "4", "5", "6", "7", "8", "9">>[date + 1]>>
    ELSE DateStr(date \div 10) \o DateStr(date % 10)

\* Mutant: the comparison is turned round.
IsLaterReversed(latest, date) == latest > date

\* Line 265.
IsLater(latest, date) == latest < date

NoFailures == [keys |-> <<>>, failure_freq |-> <<>>, latest_failure |-> <<>>]

\* Lines 260-266: one testcase name of one entry.
CountFailure(dicts, testcase_name, date) ==
    IF testcase_name \notin DOMAIN dicts.failure_freq
    THEN [keys |-> Append(dicts.keys, testcase_name),
          failure_freq |-> (testcase_name :> 1) @@ dicts.failure_freq,
          latest_failure |-> (testcase_name :> date) @@ dicts.latest_failure]
    ELSE [keys |-> dicts.keys,
          failure_freq |-> [dicts.failure_freq EXCEPT ![testcase_name] = @ + 1],
          latest_failure |-> IF IsLater(dicts.latest_failure[testcase_name], date)
                             THEN [dicts.latest_failure EXCEPT ![testcase_name] = date]
                             ELSE dicts.latest_failure]

\* Lines 258-259: the two loops, as one over the entries and their lines.
RECURSIVE CountFailures(_, _, _, _)
CountFailures(dicts, entries, i, n) ==
    IF i > Len(entries) THEN dicts
    ELSE IF n > Len(entries[i].lines) THEN CountFailures(dicts, entries, i + 1, 1)
    ELSE CountFailures(CountFailure(dicts, entries[i].lines[n], entries[i].date),
                       entries, i, n + 1)

\* Lines 268-273.
RowsOf(dicts) ==
    [r \in DOMAIN dicts.keys |->
        <<dicts.keys[r], dicts.failure_freq[dicts.keys[r]],
          DateStr(dicts.latest_failure[dicts.keys[r]])>>]

convert_data_to_aggregated_rows(entries) ==
    RowsOf(CountFailures(NoFailures, entries, 1, 1))

(***************************************************************************)
(* The inputs: one message with one plain-text part whose body is any text *)
(* made of at most MaxPieces pieces; or at most MaxMessages messages with  *)
(* at most MaxPartsPerMessage parts each, with one of two bodies and one   *)
(* of two dates.  The skip prefixes come in either order.                  *)
(***************************************************************************)
RECURSIVE Concat(_)
Concat(texts) == IF texts = <<>> THEN <<>> ELSE Head(texts) \o Concat(Tail(texts))

Pieces == {<<" ">>, PrefixFailed, PrefixFilter, Needle, DEFAULT_LINE_SEP, <<"\\">>}

BodyThreeFailures ==
    Concat(<<Needle, DEFAULT_LINE_SEP, <<"\\">>, DEFAULT_LINE_SEP, Needle,
             DEFAULT_LINE_SEP, <<" ">>, Needle, <<"\\">>>>)

BodyOneFailure ==
    Concat(<<Needle, <<"\\">>, <<" ">>, DEFAULT_LINE_SEP, PrefixFailed, Needle>>)

Dates == {9, 10}

InputMessage(i, date, bodies) ==
    [msg_id |-> <<"m1", "m2", "m3", "m4">>[i], thread_id |-> "t1", subject |-> "S",
     date |-> date, plain_text_parts |-> [j \in DOMAIN bodies |-> [body |-> bodies[j]]]]

PartLists ==
    UNION {[1..n -> {BodyThreeFailures, BodyOneFailure}] : n \in 0..MaxPartsPerMessage}

MessageList(f) == [i \in DOMAIN f |-> InputMessage(i, f[i][1], f[i][2])]

SkipLists == {<<PrefixFailed, PrefixFilter>>, <<PrefixFilter, PrefixFailed>>}

FilterInit ==
    /\ NoWrapperRun
    /\ fpc = "start"
    /\ \/ \E n \in 0..MaxPieces : \E f \in [1..n -> Pieces] :
              threads_messages = <<InputMessage(1, 9, <<Concat(f)>>)>>
       \/ \E n \in 0..MaxMessages : \E f \in [1..n -> Dates \X PartLists] :
              threads_messages = MessageList(f)
    /\ skip_lines_starting_with \in SkipLists
    /\ raw_data = <<>>
    /\ aggregated_data = <<>>

\* gmail_playground.py line 171.
FilterData ==
    /\ fpc = "start"
    /\ raw_data' = filter_data_by_regex_pattern(threads_messages, skip_lines_starting_with)
    /\ fpc' = "filtered"
    /\ UNCHANGED <<threads_messages, skip_lines_starting_with, aggregated_data, wvars>>

\* gmail_playground.py line 208.
ConvertAggregated ==
    /\ fpc = "filtered"
    /\ aggregated_data' = convert_data_to_aggregated_rows(raw_data)
    /\ fpc' = "aggregated"
    /\ UNCHANGED <<threads_messages, skip_lines_starting_with, raw_data, wvars>>

FilterNext ==
    \/ FilterData
    \/ ConvertAggregated

FilterSpec == FilterInit /\ [][FilterNext]_vars

(***************************************************************************)
(* What C8 to C10 speak of.                                                *)
(***************************************************************************)
RECURSIVE BodiesOf(_)
BodiesOf(msgs) ==
    IF msgs = <<>> THEN <<>>
    ELSE [j \in DOMAIN Head(msgs).plain_text_parts |-> Head(msgs).plain_text_parts[j].body]
         \o BodiesOf(Tail(msgs))

RECURSIVE Join(_, _)
Join(texts, sep) ==
    IF Len(texts) = 1 THEN texts[1] ELSE texts[1] \o sep \o Join(Tail(texts), sep)

Holds(text, sub) ==
    \E i \in 1..Len(text) : startswith(SubSeq(text, i, Len(text)), sub)

\* line is what is left of piece without the white space at its two ends.
IsTrimmed(line, piece) ==
    /\ line # <<>> => (line[1] \notin Whitespace /\ line[Len(line)] \notin Whitespace)
    /\ \E a \in 0..Len(piece) :
          /\ SubSeq(piece, a + 1, a + Len(line)) = line
          /\ a + Len(line) <= Len(piece)
          /\ \A i \in 1..Len(piece) :
                (i <= a \/ i > a + Len(line)) => piece[i] \in Whitespace

\* The sequences of lines that are body cut at every line separator, each trimmed.
IsTrimmedLines(lines, body) ==
    \E pieces \in {split(body, DEFAULT_LINE_SEP)} :
        /\ Join(pieces, DEFAULT_LINE_SEP) = body
        /\ \A i \in DOMAIN pieces : ~Holds(pieces[i], DEFAULT_LINE_SEP)
        /\ Len(lines) = Len(pieces)
        /\ \A i \in DOMAIN pieces : IsTrimmed(lines[i], pieces[i])

SkipPrefixes == {skip_lines_starting_with[i] : i \in DOMAIN skip_lines_starting_with}

Wanted(line) ==
    /\ \A prefix \in SkipPrefixes : ~startswith(line, prefix)
    /\ Holds(line, Needle)

TrimmedLines(body) ==
    [i \in DOMAIN split(body, DEFAULT_LINE_SEP) |-> strip(split(body, DEFAULT_LINE_SEP)[i])]

Reversed(seq) == [i \in DOMAIN seq |-> seq[Len(seq) + 1 - i]]

\* The places <<entry, line>> of the matched lines.
AllLines == UNION {{<<k, n>> : n \in DOMAIN raw_data[k].lines} : k \in DOMAIN raw_data}

(***************************************************************************)
(* C8: filter_data_by_regex_pattern returns one MatchedLinesFromMessage    *)
(* per source message, in order, whatever the number of plain-text parts   *)
(* of a message.                                                           *)
(***************************************************************************)
C8_OneEntryPerMessage ==
    fpc # "start" =>
        /\ Len(raw_data) = Len(threads_messages)
        /\ \A i \in DOMAIN raw_data : raw_data[i].message_id = threads_messages[i].msg_id

(***************************************************************************)
(* C9: the matched lines of a plain-text body are, in their order, the     *)
(* trimmed lines of the body (the body cut at every line separator) that   *)
(* start with none of the skip prefixes and match the regex, each a whole  *)
(* trimmed line; the skip prefixes in the other order give the same.       *)
(***************************************************************************)
C9_MatchedLinesAreTheWantedTrimmedLines ==
    fpc # "start" =>
        /\ Len(raw_data) = Len(BodiesOf(threads_messages))
        /\ \A k \in DOMAIN raw_data :
              /\ IsTrimmedLines(TrimmedLines(BodiesOf(threads_messages)[k]),
                                BodiesOf(threads_messages)[k])
              /\ raw_data[k].lines =
                     SelectSeq(TrimmedLines(BodiesOf(threads_messages)[k]), Wanted)
        /\ raw_data = filter_data_by_regex_pattern(threads_messages,
                                                   Reversed(skip_lines_starting_with))

C9_Witness ==
    /\ fpc = "filtered"
    /\ skip_lines_starting_with = <<PrefixFailed, PrefixFilter>>
    /\ Len(threads_messages) = 1
    /\ BodiesOf(threads_messages) =
           <<Concat(<<PrefixFilter, Needle, DEFAULT_LINE_SEP, <<" ">>, Needle>>)>>
    /\ raw_data[1].lines = <<Needle>>

(***************************************************************************)
(* C10: convert_data_to_aggregated_rows returns one row per distinct       *)
(* matched line text; its frequency is the number of occurrences of the    *)
(* text in the lines of all entries, its date the latest of the dates of   *)
(* the entries that hold it.                                               *)
(***************************************************************************)
Occurrences(text) == {o \in AllLines : raw_data[o[1]].lines[o[2]] = text}

LatestDate(text) ==
    CHOOSE d \in {raw_data[o[1]].date : o \in Occurrences(text)} :
        \A o \in Occurrences(text) : raw_data[o[1]].date <= d

C10_OneRowPerDistinctLine ==
    fpc = "aggregated" =>
        /\ \A r, q \in DOMAIN aggregated_data :
              aggregated_data[r][1] = aggregated_data[q][1] => r = q
        /\ {aggregated_data[r][1] : r \in DOMAIN aggregated_data} =
               {raw_data[o[1]].lines[o[2]] : o \in AllLines}
        /\ \A r \in DOMAIN aggregated_data :
              /\ aggregated_data[r][2] = Cardinality(Occurrences(aggregated_data[r][1]))
              /\ aggregated_data[r][3] = DateStr(LatestDate(aggregated_data[r][1]))

C10_Witness ==
    /\ fpc = "aggregated"
    /\ Len(threads_messages) = 2
    /\ threads_messages[1].date = 10
    /\ threads_messages[2].date = 9
    /\ BodiesOf(threads_messages) = <<BodyOneFailure, BodyThreeFailures, BodyOneFailure>>
    /\ aggregated_data =
           <<<<Concat(<<Needle, <<"\\">>>>), 3, <<"1", "0">>>>, <<Needle, 2, <<"9">>>>>>

(***************************************************************************)
(* The limit that GmailPlayground.start hands to query_threads_with_paging *)
(* (gmail_playground.py line 29).  The method of gmail_api.py lines        *)
(* 151-180 has no such parameter: its loop is steered by the page token    *)
(* alone, which is what StartRun, ExecuteList and ListNext model.          *)
(***************************************************************************)
REQ_LIMIT == 1

\* A step that issues a list request.
ListRequestIssued ==
    /\ Len(log') = Len(log) + 1
    /\ log'[Len(log')].kind = "list"

(***************************************************************************)
(* C11: no list request is issued once the number of threads collected has *)
(* reached the limit, even if the provider still returns a page token.     *)
(***************************************************************************)
C11_NoListRequestAtLimit ==
    [][ListRequestIssued => Len(threads) < REQ_LIMIT]_vars

ParsedMessages ==
    UNION {{<<t, k>> : k \in DOMAIN threads[t].messages} : t \in DOMAIN threads}

DateOf(m) == threads[m[1]].messages[m[2]].date

InternalDateOf(m) == details[m[1]].messages[m[2]].internalDate

(***************************************************************************)
(* C13 (as stated): the date of a message is its internalDate divided by   *)
(* 1000 with what is below one second discarded; two messages whose        *)
(* internalDate fall within the same second have equal dates.              *)
(***************************************************************************)
C13_DateIsWholeSeconds ==
    /\ \A m \in ParsedMessages :
          DateOf(m) = [second |-> InternalDateOf(m) \div 1000, microsecond |-> 0]
    /\ \A m, n \in ParsedMessages :
          InternalDateOf(m) \div 1000 = InternalDateOf(n) \div 1000 => DateOf(m) = DateOf(n)

(***************************************************************************)
(* C13 (amended): the date of a message is its internalDate divided by     *)
(* 1000 with the milliseconds kept, as the microseconds of the date: two   *)
(* messages have equal dates exactly when their internalDate are equal.    *)
(***************************************************************************)
C13_DateKeepsMilliseconds ==
    /\ \A m \in ParsedMessages :
          /\ DateOf(m).second = InternalDateOf(m) \div 1000
          /\ DateOf(m).microsecond = 1000 * (InternalDateOf(m) % 1000)
    /\ \A m, n \in ParsedMessages :
          DateOf(m) = DateOf(n) <=> InternalDateOf(m) = InternalDateOf(n)

\* Two messages of the same second, one of them with milliseconds, have been parsed.
C13_Witness ==
    \E m, n \in ParsedMessages :
        /\ InternalDateOf(m) = 1500
        /\ InternalDateOf(n) = 1000
        /\ DateOf(m) = [second |-> 1, microsecond |-> 500000]
        /\ DateOf(n) = [second |-> 1, microsecond |-> 0]

====
